---- MODULE Spec2Model ----
(***************************************************************************)
(* GoogleDriveApp (universal_mcp_google_drive/app.py): the convenience     *)
(* operations, the HTTP calls each one issues and the Drive v3 endpoints    *)
(* they are issued against.                                                *)
(*                                                                         *)
(* Python strings are sequences of one-character strings, so that the      *)
(* pattern test of create_folder and f-string formatting are computed      *)
(* character by character; MIME types, which are only copied and suffixed, *)
(* are TLA+ strings.  A Python value that may be None is a tagged record.  *)
(* A text is a sequence of Unicode code points and a body of raw bytes a   *)
(* sequence of integers 0..255.                                            *)
(***************************************************************************)
EXTENDS Integers, Sequences, FiniteSets, TLC

VARIABLES
    app,          \* the GoogleDriveApp object: its name and base_url
    helperRaises, \* the installed transport: do _get/_post/_delete raise on a non-2xx status
    active,       \* the callers that invoke operations
    drive,        \* the remote Drive: file id -> resource
    nextId,       \* the remote Drive: number of the next id it hands out
    pc,           \* per caller: where its invocation stands
    op,           \* per caller: the operation invoked and its arguments
    calls,        \* per caller: the outbound HTTP calls of the invocation, in order
    resps,        \* per caller: what came back for each call, in order
    created,      \* per caller: the ids the remote created for this invocation
    result        \* per caller: how the invocation ended

vars == <<app, helperRaises, active, drive, nextId, pc, op, calls, resps, created, result>>

-----------------------------------------------------------------------------
(* Bounds *)

NumCallers == 2
MaxFiles == 2

Callers == 1..NumCallers

-----------------------------------------------------------------------------
(* Python values *)

PyNone == [tag |-> "None"]
PyStr(s) == [tag |-> "str", s |-> s]

\* bool(v) for v a str or None
Truthy(v) == v.tag = "str" /\ v.s # <<>>

\* f"{v}" for v a str or None
NoneChars == <<"N", "o", "n", "e">>
Fmt(v) == IF v.tag = "None" THEN NoneChars ELSE v.s

\* dict.get(k, default)
DictGet(d, k, default) == IF k \in DOMAIN d THEN d[k] ELSE default

EmptyDict == <<>>

-----------------------------------------------------------------------------
(* Characters and the ID pattern of create_folder *)

Lower == <<"a","b","c","d","e","f","g","h","i","j","k","l","m",
           "n","o","p","q","r","s","t","u","v","w","x","y","z">>
Upper == <<"A","B","C","D","E","F","G","H","I","J","K","L","M",
           "N","O","P","Q","R","S","T","U","V","W","X","Y","Z">>
Digits == <<"0","1","2","3","4","5","6","7","8","9">>
IdAlphabet == Lower \o Upper \o Digits \o <<"_", "-">>
IdChars == {IdAlphabet[i] : i \in 1..Len(IdAlphabet)}
Newline == "\n"

IdMinLen == 28
IdMaxLen == 33

\* re.match(r"^[a-zA-Z0-9_-]{28,33}$", s): between IdMinLen and IdMaxLen pattern
\* characters from the start, and then the end of the string; Python's "$"
\* also matches just before a newline that ends the string.
ReMatchId(s) ==
    \E n \in IdMinLen..IdMaxLen :
        /\ n <= Len(s)
        /\ \A i \in 1..n : s[i] \in IdChars
        /\ \/ Len(s) = n
           \/ Len(s) = n + 1 /\ s[n + 1] = Newline

-----------------------------------------------------------------------------
(* str.encode("utf-8") *)

IsSurrogate(cp) == cp >= 55296 /\ cp <= 57343

Utf8Char(cp) ==
    IF cp < 128 THEN <<cp>>
    ELSE IF cp < 2048 THEN <<192 + (cp \div 64), 128 + (cp % 64)>>
    ELSE IF cp < 65536 THEN
        <<224 + (cp \div 4096), 128 + ((cp \div 64) % 64), 128 + (cp % 64)>>
    ELSE <<240 + (cp \div 262144), 128 + ((cp \div 4096) % 64),
           128 + ((cp \div 64) % 64), 128 + (cp % 64)>>

RECURSIVE Utf8Encode(_)
Utf8Encode(text) ==
    IF text = <<>> THEN <<>> ELSE Utf8Char(Head(text)) \o Utf8Encode(Tail(text))

\* encode raises UnicodeEncodeError on a lone surrogate
EncodeRaises(text) == \E i \in 1..Len(text) : IsSurrogate(text[i])

-----------------------------------------------------------------------------
(* URLs, calls, replies *)

BaseUrl == "https://www.googleapis.com/drive/v3"
UploadBase == "https://www.googleapis.com/upload/drive/v3"
FolderMime == "application/vnd.google-apps.folder"
Files == <<"f", "i", "l", "e", "s">>
Apps == <<"a", "p", "p", "s">>
Comments == <<"c", "o", "m", "m", "e", "n", "t", "s">>
Permissions == <<"p", "e", "r", "m", "i", "s", "s", "i", "o", "n", "s">>
DriveSegment == <<"d", "r", "i", "v", "e">>
V3Segment == <<"v", "3">>

Url(base, path, query) == [base |-> base, path |-> path, query |-> query]

\* f"{self.base_url}/files" and f"{self.base_url}/files/{file_id}"
FilesUrl == Url(app.base_url, <<Files>>, "")
FileUrl(file_id) == Url(app.base_url, <<Files, Fmt(file_id)>>, "")
\* f"https://www.googleapis.com/upload/drive/v3/files/{file_id}?uploadType=media"
UploadUrl(file_id) == Url(UploadBase, <<Files, Fmt(file_id)>>, "uploadType=media")

\* One outbound call.  via: "helper" for self._get/_post/_delete, "httpx" for httpx.patch.
Call(via, verb, url, params, json, headers, content) ==
    [via |-> via, verb |-> verb, url |-> url, params |-> params, json |-> json,
     headers |-> headers, content |-> content]

\* self._get_headers(): the credential's headers
GetHeaders == ("Authorization" :> PyStr("Bearer"))

\* What comes back on the wire: a status and a decoded JSON body; status 0
\* stands for no response at all (a connectivity failure).
Reply(status, json) == [status |-> status, json |-> json]
NetError == Reply(0, PyNone)
ErrorJson(status) == ("error" :> status)
IsSuccess(reply) == reply.status >= 200 /\ reply.status < 300

\* The outcome of a transport call as the calling code sees it.
Returned(reply) == [raised |-> FALSE, exc |-> "", reply |-> reply]
Raised(exc) == [raised |-> TRUE, exc |-> exc, reply |-> NetError]

\* self._get / self._post / self._delete: a connectivity failure raises; a
\* non-2xx response raises in a transport that checks the status itself and
\* is handed back unchecked in one that leaves the check to the caller.
HelperOutcome(reply) ==
    IF reply.status = 0 THEN Raised("ConnectError")
    ELSE IF ~IsSuccess(reply) /\ helperRaises THEN Raised("HTTPStatusError")
    ELSE Returned(reply)

\* httpx.patch: raises only when there is no response
HttpxOutcome(reply) ==
    IF reply.status = 0 THEN Raised("ConnectError") ELSE Returned(reply)

\* httpx builds the request's headers before it sends anything, and raises
\* TypeError for a header value that is not a str
HeadersRaise(headers) == \E k \in DOMAIN headers : headers[k].tag # "str"

\* response.raise_for_status()
RaiseForStatusRaises(reply) == ~IsSuccess(reply)

-----------------------------------------------------------------------------
(* How a piece of an operation's code ends: it issues the next call, returns *)
(* a value or raises.                                                       *)

NoCall == [via |-> "none"]
StepCall(call) == [kind |-> "call", call |-> call, value |-> PyNone, exc |-> ""]
StepReturn(value) == [kind |-> "return", call |-> NoCall, value |-> value, exc |-> ""]
StepRaise(exc) == [kind |-> "raise", call |-> NoCall, value |-> PyNone, exc |-> exc]

-----------------------------------------------------------------------------
(* The remote Drive, as the operations use it.  A resource has a name, is   *)
(* a folder or not, and carries a version: 1 as created by POST /files, 2   *)
(* once content has been uploaded into it.  The JSON the remote returns for *)
(* a resource is its representation at that moment.  Which resources are a  *)
(* resource's parents is checked on the way in and not kept.                *)

\* The ids the remote hands out: IdMaxLen characters of the ID alphabet.
FileIdOf(n) == [i \in 1..IdMaxLen |-> IF i < IdMaxLen THEN "F" ELSE Digits[n + 1]]

Resource(name, folder, version) == [name |-> name, folder |-> folder, version |-> version]
ResourceJson(id, r) ==
    ("id" :> PyStr(id)) @@ ("name" :> PyStr(r.name)) @@ ("version" :> r.version)

RECURSIVE Perms(_)
Perms(S) ==
    IF S = {} THEN {<<>>}
    ELSE UNION {{<<x>> \o p : p \in Perms(S \ {x})} : x \in S}

Served(reply, newDrive, newNextId, newIds) ==
    [reply |-> reply, drive |-> newDrive, nextId |-> newNextId, newIds |-> newIds]
Refused(status) == Served(Reply(status, ErrorJson(status)), drive, nextId, {})
Unreachable == Served(NetError, drive, nextId, {})

\* POST /files: creates one resource under a fresh id, when every parent named
\* exists; otherwise, or when the remote refuses, a 4xx and nothing created.
DrivePostFile(call) ==
    LET body == call.json
        parents == DictGet(body, "parents", <<>>)
        parentsExist == \A i \in 1..Len(parents) : parents[i].s \in DOMAIN drive
        id == FileIdOf(nextId)
        r == Resource(body["name"].s,
                      body["mimeType"].tag = "str" /\ body["mimeType"].s = FolderMime, 1)
    IN  {Refused(IF parentsExist THEN 403 ELSE 404)} \cup
        IF parentsExist /\ nextId <= MaxFiles
        THEN {Served(Reply(200, ResourceJson(id, r)), (id :> r) @@ drive, nextId + 1, {id})}
        ELSE {}

\* PATCH upload/files/{id}?uploadType=media: stores the content of an existing file.
DrivePatchUpload(call) ==
    LET id == call.url.path[2]
    IN  IF id \in DOMAIN drive /\ ~drive[id].folder
        THEN LET r == [drive[id] EXCEPT !.version = 2]
             IN  {Served(Reply(200, ResourceJson(id, r)), [drive EXCEPT ![id] = r], nextId, {}),
                  Refused(403)}
        ELSE {Refused(404)}

\* DELETE /files/{id}
DriveDelete(call) ==
    LET id == call.url.path[2]
    IN  IF id \in DOMAIN drive
        THEN {Served(Reply(204, PyNone), [i \in DOMAIN drive \ {id} |-> drive[i]], nextId, {}),
              Refused(403)}
        ELSE {Refused(404)}

\* GET /files/{id}
DriveGet(call) ==
    LET id == call.url.path[2]
    IN  IF id \in DOMAIN drive
        THEN {Served(Reply(200, ResourceJson(id, drive[id])), drive, nextId, {}), Refused(403)}
        ELSE {Refused(404)}

\* PATCH /files/{id}?addParents=..&removeParents=..: accepted when the resource
\* exists and the parent to add is another resource that exists.
DrivePatchFile(call) ==
    LET id == call.url.path[2]
        add == IF "addParents" \in DOMAIN call.params THEN {call.params["addParents"].s} ELSE {}
    IN  IF id \in DOMAIN drive /\ add \subseteq DOMAIN drive \ {id}
        THEN {Served(Reply(200, ResourceJson(id, drive[id])), drive, nextId, {}), Refused(403)}
        ELSE {Refused(404)}

\* GET /files: the resources, or with q the folders whose name is the one
\* quoted in q, in any order, cut to the page size asked for; a q of another shape or
\* with a quote character in the name is malformed.  With fields=files(id,name)
\* an entry has just these two.
DriveList(call) ==
    LET params == call.params
        hasQ == "q" \in DOMAIN params
        q == params["q"]
        malformed == hasQ /\ (Len(q) # 3 \/ \E i \in 1..Len(q[2]) : q[2][i] = "'")
        hits == IF hasQ
                THEN {id \in DOMAIN drive : drive[id].folder /\ drive[id].name = q[2]}
                ELSE DOMAIN drive
        cut(n) == IF "pageSize" \in DOMAIN params /\ params["pageSize"] < n
                  THEN params["pageSize"] ELSE n
        entry(id) == IF "fields" \in DOMAIN params
                     THEN ("id" :> PyStr(id)) @@ ("name" :> PyStr(drive[id].name))
                     ELSE ResourceJson(id, drive[id])
        listing(p) == ("files" :> [i \in 1..cut(Len(p)) |-> entry(p[i])])
    IN  IF malformed
        THEN {Refused(400)}
        ELSE {Served(Reply(200, listing(p)), drive, nextId, {}) : p \in Perms(hits)}
             \cup {Refused(403)}

\* A 2xx answer to GET /files that is not a well-formed listing: an entry
\* without an id, and a body without the files array.
DriveListGarbled(call) ==
    {Served(Reply(200, ("files" :> <<("name" :> PyStr(<<"?">>))>>)), drive, nextId, {}),
     Served(Reply(200, EmptyDict), drive, nextId, {})}

\* GET /apps/{appId} and GET /files/{id}/comments/{commentId}: apps and
\* comments are not kept here; the remote has the one asked for, or not.
DriveGetApp(call) ==
    {Served(Reply(200, ("id" :> PyStr(call.url.path[2]))), drive, nextId, {}), Refused(404)}

DriveGetComment(call) ==
    IF call.url.path[2] \in DOMAIN drive
    THEN {Served(Reply(200, ("id" :> PyStr(call.url.path[4]))), drive, nextId, {}), Refused(404)}
    ELSE {Refused(404)}

\* Every way the remote can answer a call, with the state it is then in; a
\* path the remote does not serve is a 404.
DriveServe(call) ==
    LET path == call.url.path
        n == Len(path)
    IN  {Unreachable} \cup
        CASE call.verb = "POST" /\ path = <<Files>> -> DrivePostFile(call)
          [] call.verb = "PATCH" /\ call.url.base = UploadBase -> DrivePatchUpload(call)
          [] call.verb = "PATCH" /\ n = 2 /\ path[1] = Files -> DrivePatchFile(call)
          [] call.verb = "DELETE" /\ n = 2 /\ path[1] = Files -> DriveDelete(call)
          [] call.verb = "GET" /\ path = <<Files>> -> DriveList(call) \cup DriveListGarbled(call)
          [] call.verb = "GET" /\ n = 2 /\ path[1] = Files -> DriveGet(call)
          [] call.verb = "GET" /\ n = 2 /\ path[1] = Apps -> DriveGetApp(call)
          [] call.verb = "GET" /\ n = 4 /\ path[1] = Files /\ path[3] = Comments
                -> DriveGetComment(call)
          [] OTHER -> {Refused(404)}

-----------------------------------------------------------------------------
(* The local filesystem upload_a_file reads from *)

LocalFs ==
    ("/data/a.png" :> [err |-> "", bytes |-> <<137, 80>>]) @@
    ("/data/missing" :> [err |-> "FileNotFoundError", bytes |-> <<>>]) @@
    ("/root/secret" :> [err |-> "PermissionError", bytes |-> <<>>])

FsErrors == {"FileNotFoundError", "PermissionError"}

-----------------------------------------------------------------------------
(* The operations' code, piece by piece: from the entry to the first call,  *)
(* and from each call's outcome to the next call, the return or the raise.  *)
(* a: the arguments; rs: the replies received before; reply: the reply to   *)
(* the call that was waited for.                                            *)

\* as FileMetadata, but with parents only for a parent_id that looks like an ID
FileMetadataIdsOnly(file_name, mime_type, parent_id) ==
    LET metadata == ("name" :> PyStr(file_name)) @@ ("mimeType" :> mime_type)
    IN  IF Truthy(parent_id) /\ ReMatchId(parent_id.s)
        THEN ("parents" :> <<parent_id>>) @@ metadata ELSE metadata

\* create_file_from_text and upload_a_file: metadata = {"name", "mimeType"}, plus
\* "parents" when parent_id is truthy
FileMetadata(file_name, mime_type, parent_id) ==
    LET metadata == ("name" :> PyStr(file_name)) @@ ("mimeType" :> mime_type)
    IN  IF Truthy(parent_id) THEN ("parents" :> <<parent_id>>) @@ metadata ELSE metadata

\* self._post(create_url, data=metadata)
CreatePost(metadata) == Call("helper", "POST", FilesUrl, PyNone, metadata, PyNone, PyNone)

\* httpx.patch(upload_url, headers=upload_headers, content=...)
UploadPatch(file_id, content_type, content) ==
    Call("httpx", "PATCH", UploadUrl(file_id), PyNone, PyNone,
         ("Content-Type" :> content_type) @@ GetHeaders, content)

\* as UploadResult, but without raise_for_status
UploadResultUnchecked(reply) ==
    IF HttpxOutcome(reply).raised THEN StepRaise(HttpxOutcome(reply).exc)
    ELSE StepReturn(HttpxOutcome(reply).reply.json)

\* upload_response.raise_for_status(); return upload_response.json()
UploadResult(reply) ==
    LET upload_response == HttpxOutcome(reply)
    IN  IF upload_response.raised THEN StepRaise(upload_response.exc)
        ELSE IF RaiseForStatusRaises(upload_response.reply) THEN StepRaise("HTTPStatusError")
        ELSE StepReturn(upload_response.reply.json)

create_file_from_text_start(a) ==
    StepCall(CreatePost(FileMetadata(a.file_name, a.mime_type, a.parent_id)))

create_file_from_text_after_post(a, rs, reply) ==
    LET create_response == HelperOutcome(reply)
    IN  IF create_response.raised THEN StepRaise(create_response.exc)
        ELSE LET file_data == create_response.reply.json
                 file_id == DictGet(file_data, "id", PyNone)
                 content_type == PyStr(a.mime_type.s \o "; charset=utf-8")
             IN  IF EncodeRaises(a.text_content) THEN StepRaise("UnicodeEncodeError")
                 ELSE StepCall(UploadPatch(file_id, content_type, Utf8Encode(a.text_content)))

\* as create_file_from_text_after_patch, but returning the JSON of the metadata-create call
create_file_from_text_returns_create_json(a, rs, reply) ==
    IF UploadResult(reply).kind = "return" THEN StepReturn(rs[1].json)
    ELSE UploadResult(reply)

create_file_from_text_after_patch(a, rs, reply) == UploadResult(reply)

\* as upload_a_file_start, but opening the local file before the metadata-create call
upload_a_file_opens_first(a) ==
    IF LocalFs[a.file_path].err # "" THEN StepRaise(LocalFs[a.file_path].err)
    ELSE StepCall(CreatePost(FileMetadata(a.file_name, a.mime_type, a.parent_id)))

upload_a_file_start(a) ==
    StepCall(CreatePost(FileMetadata(a.file_name, a.mime_type, a.parent_id)))

\* as upload_a_file_after_post, but returning {"error": ...} for a file that
\* cannot be read, as delete_file does for its failures
upload_a_file_reshapes_fs_error(a, rs, reply) ==
    LET create_response == HelperOutcome(reply)
        file_id == DictGet(create_response.reply.json, "id", PyNone)
        upload == UploadPatch(file_id, a.mime_type, LocalFs[a.file_path].bytes)
    IN  IF create_response.raised THEN StepRaise(create_response.exc)
        ELSE IF LocalFs[a.file_path].err # "" THEN StepReturn(("error" :> LocalFs[a.file_path].err))
        ELSE IF HeadersRaise(upload.headers) THEN StepRaise("TypeError")
        ELSE StepCall(upload)

upload_a_file_after_post(a, rs, reply) ==
    LET create_response == HelperOutcome(reply)
    IN  IF create_response.raised THEN StepRaise(create_response.exc)
        ELSE LET file_data == create_response.reply.json
                 file_id == DictGet(file_data, "id", PyNone)
                 file_content == LocalFs[a.file_path]
                 upload == UploadPatch(file_id, a.mime_type, file_content.bytes)
             IN  IF file_content.err # "" THEN StepRaise(file_content.err)
                 ELSE IF HeadersRaise(upload.headers) THEN StepRaise("TypeError")
                 ELSE StepCall(upload)

upload_a_file_after_patch(a, rs, reply) == UploadResult(reply)

\* find_folder_id_by_name: the query, the call, and what it makes of the outcome
FolderQuery(folder_name) ==
    <<"mimeType='application/vnd.google-apps.folder' and name='", folder_name,
      "' and trashed=false">>

FindFolderGet(folder_name) ==
    Call("helper", "GET", FilesUrl,
         ("q" :> FolderQuery(folder_name)) @@ ("fields" :> "files(id,name)"),
         PyNone, PyNone, PyNone)

\* as find_folder_id_by_name_result, but taking the last element of files
find_folder_id_by_name_result_last(reply) ==
    LET files == IF HelperOutcome(reply).raised THEN <<>>
                 ELSE DictGet(HelperOutcome(reply).reply.json, "files", <<>>)
    IN  IF files = <<>> THEN PyNone
        ELSE IF "id" \in DOMAIN files[Len(files)] THEN files[Len(files)]["id"]
        ELSE PyNone

find_folder_id_by_name_result(reply) ==
    LET response == HelperOutcome(reply)
    IN  IF response.raised THEN PyNone
        ELSE LET files == DictGet(response.reply.json, "files", <<>>)
             IN  IF files = <<>> THEN PyNone
                 ELSE IF "id" \in DOMAIN files[1] THEN files[1]["id"]
                 ELSE PyNone

\* create_folder
FolderMetadata(folder_name) ==
    ("name" :> PyStr(folder_name)) @@ ("mimeType" :> PyStr(FolderMime))

\* as FolderPost, but without the query parameters
FolderPostWithoutParams(metadata) ==
    Call("helper", "POST", FilesUrl, PyNone, metadata, PyNone, PyNone)

FolderPost(metadata) ==
    Call("helper", "POST", FilesUrl, ("supportsAllDrives" :> "true"), metadata, PyNone, PyNone)

create_folder_start(a) ==
    LET metadata == FolderMetadata(a.folder_name)
    IN  IF Truthy(a.parent_id)
        THEN IF ~ReMatchId(a.parent_id.s)
             THEN StepCall(FindFolderGet(a.parent_id.s))
             ELSE StepCall(FolderPost(("parents" :> <<a.parent_id>>) @@ metadata))
        ELSE StepCall(FolderPost(metadata))

\* as create_folder_after_lookup, but creating the folder without parents when
\* the lookup finds nothing
create_folder_after_lookup_creates_anyway(a, rs, reply) ==
    IF Truthy(find_folder_id_by_name_result(reply))
    THEN StepCall(FolderPost(("parents" :> <<find_folder_id_by_name_result(reply)>>)
                             @@ FolderMetadata(a.folder_name)))
    ELSE StepCall(FolderPost(FolderMetadata(a.folder_name)))

\* as create_folder_after_lookup, but issuing the lookup again when it failed
create_folder_after_lookup_retries(a, rs, reply) ==
    IF Truthy(find_folder_id_by_name_result(reply))
    THEN StepCall(FolderPost(("parents" :> <<find_folder_id_by_name_result(reply)>>)
                             @@ FolderMetadata(a.folder_name)))
    ELSE IF ~IsSuccess(reply) THEN StepCall(FindFolderGet(a.parent_id.s))
    ELSE StepRaise("ValueError")

\* as create_folder_after_lookup, but with the exception of a lookup that
\* raised going to the caller
create_folder_after_lookup_propagates(a, rs, reply) ==
    IF HelperOutcome(reply).raised THEN StepRaise(HelperOutcome(reply).exc)
    ELSE IF Truthy(find_folder_id_by_name_result(reply))
    THEN StepCall(FolderPost(("parents" :> <<find_folder_id_by_name_result(reply)>>)
                             @@ FolderMetadata(a.folder_name)))
    ELSE StepRaise("ValueError")

\* as create_folder_after_lookup, but with parent_id itself as the parent
\* once the lookup has found the folder
create_folder_after_lookup_sends_name(a, rs, reply) ==
    IF Truthy(find_folder_id_by_name_result(reply))
    THEN StepCall(FolderPost(("parents" :> <<a.parent_id>>) @@ FolderMetadata(a.folder_name)))
    ELSE StepRaise("ValueError")

create_folder_after_lookup(a, rs, reply) ==
    LET metadata == FolderMetadata(a.folder_name)
        found_id == find_folder_id_by_name_result(reply)
    IN  IF Truthy(found_id)
        THEN StepCall(FolderPost(("parents" :> <<found_id>>) @@ metadata))
        ELSE StepRaise("ValueError")

create_folder_after_post(a, rs, reply) ==
    LET response == HelperOutcome(reply)
    IN  IF response.raised THEN StepRaise(response.exc)
        ELSE StepReturn(response.reply.json)

\* delete_file
delete_file_start(a) ==
    StepCall(Call("helper", "DELETE", FileUrl(a.file_id), PyNone, PyNone, PyNone, PyNone))

\* as delete_file_after_delete, but letting the exception through
delete_file_propagates(a, rs, reply) ==
    IF HelperOutcome(reply).raised THEN StepRaise(HelperOutcome(reply).exc)
    ELSE StepReturn(("message" :> "File deleted successfully"))

\* as delete_file_after_delete, but reading the file back after a DELETE that
\* did not raise
delete_file_reads_back(a, rs, reply) ==
    IF HelperOutcome(reply).raised THEN StepReturn(("error" :> HelperOutcome(reply).exc))
    ELSE StepCall(Call("helper", "GET", FileUrl(a.file_id), PyNone, PyNone, PyNone, PyNone))

delete_file_after_delete(a, rs, reply) ==
    LET outcome == HelperOutcome(reply)
    IN  IF outcome.raised THEN StepReturn(("error" :> outcome.exc))
        ELSE StepReturn(("message" :> "File deleted successfully"))

\* list_files
ListParams(page_size, query, order_by) ==
    LET params == ("pageSize" :> page_size)
        withQ == IF Truthy(query) THEN ("q" :> query.s) @@ params ELSE params
    IN  IF Truthy(order_by) THEN ("orderBy" :> order_by.s) @@ withQ ELSE withQ

\* as list_files_start, but testing the arguments with "is not None"
list_files_tests_is_not_none(a) ==
    LET params == ("pageSize" :> a.page_size)
        withQ == IF a.query # PyNone THEN ("q" :> a.query.s) @@ params ELSE params
        all == IF a.order_by # PyNone THEN ("orderBy" :> a.order_by.s) @@ withQ ELSE withQ
    IN  StepCall(Call("helper", "GET", FilesUrl, all, PyNone, PyNone, PyNone))

list_files_start(a) ==
    StepCall(Call("helper", "GET", FilesUrl, ListParams(a.page_size, a.query, a.order_by),
                  PyNone, PyNone, PyNone))

list_files_after_get(a, rs, reply) ==
    LET response == HelperOutcome(reply)
    IN  IF response.raised THEN StepRaise(response.exc)
        ELSE IF RaiseForStatusRaises(response.reply) THEN StepRaise("HTTPStatusError")
        ELSE StepReturn(response.reply.json)

\* get_file
\* as get_file_start, but calling self._delete, as delete_file below it does
get_file_calls_delete(a) ==
    StepCall(Call("helper", "DELETE", FileUrl(a.file_id), PyNone, PyNone, PyNone, PyNone))

get_file_start(a) ==
    StepCall(Call("helper", "GET", FileUrl(a.file_id), PyNone, PyNone, PyNone, PyNone))

get_file_after_get(a, rs, reply) ==
    LET response == HelperOutcome(reply)
    IN  IF response.raised THEN StepRaise(response.exc)
        ELSE StepReturn(response.reply.json)

\* find_folder_id_by_name, invoked as an operation of its own
find_folder_id_by_name_start(a) == StepCall(FindFolderGet(a.folder_name))

\* as find_folder_id_by_name_after_get, but without the try/except
find_folder_id_by_name_uncaught(a, rs, reply) ==
    LET response == HelperOutcome(reply)
        files == DictGet(response.reply.json, "files", <<>>)
    IN  IF response.raised THEN StepRaise(response.exc)
        ELSE IF files # <<>> /\ "id" \notin DOMAIN files[1] THEN StepRaise("KeyError")
        ELSE StepReturn(find_folder_id_by_name_result(reply))

find_folder_id_by_name_after_get(a, rs, reply) ==
    StepReturn(find_folder_id_by_name_result(reply))

\* as FilterNone, but keeping every key
FilterNoneKeepsAll(d) == d

\* The generated operations.  {k: v for k, v in [...] if v is not None}
FilterNone(d) == [k \in {k \in DOMAIN d : d[k] # PyNone} |-> d[k]]

\* The optional arguments of a generated operation, kw being the ones the
\* caller passed by keyword: each is what was passed, or the default None
Arg(kw, k) == IF k \in DOMAIN kw THEN kw[k] ELSE PyNone

Args(kw, keys) == FilterNone([k \in keys |-> Arg(kw, k)])

\* response.raise_for_status(); return response.json()
GeneratedResult(reply) ==
    LET response == HelperOutcome(reply)
    IN  IF response.raised THEN StepRaise(response.exc)
        ELSE IF RaiseForStatusRaises(response.reply) THEN StepRaise("HTTPStatusError")
        ELSE StepReturn(response.reply.json)

\* The query parameters every generated operation takes
StandardKeys == {"alt", "fields", "key", "oauth_token", "prettyPrint", "quotaUser"}

\* get_aspecific_app
GetASpecificAppKeys ==
    StandardKeys \cup {"access_token", "callback", "upload_protocol", "uploadType", "$.xgafv"}

\* as get_aspecific_app_start, but without the test of appId
get_aspecific_app_unvalidated(a) ==
    StepCall(Call("helper", "GET", Url(app.base_url, <<Apps, Fmt(a.appId)>>, ""),
                  Args(a.kw, GetASpecificAppKeys), PyNone, PyNone, PyNone))

get_aspecific_app_start(a) ==
    IF a.appId = PyNone THEN StepRaise("ValueError")
    ELSE StepCall(Call("helper", "GET", Url(app.base_url, <<Apps, Fmt(a.appId)>>, ""),
                       Args(a.kw, GetASpecificAppKeys), PyNone, PyNone, PyNone))

get_aspecific_app_after_get(a, rs, reply) == GeneratedResult(reply)

\* get_comment_by_id
GetCommentByIdKeys == StandardKeys \cup {"includeDeleted", "userIp"}

get_comment_by_id_start(a) ==
    IF a.fileId = PyNone THEN StepRaise("ValueError")
    ELSE IF a.commentId = PyNone THEN StepRaise("ValueError")
    ELSE StepCall(Call("helper", "GET",
                       Url(app.base_url, <<Files, Fmt(a.fileId), Comments, Fmt(a.commentId)>>, ""),
                       Args(a.kw, GetCommentByIdKeys), PyNone, PyNone, PyNone))

get_comment_by_id_after_get(a, rs, reply) == GeneratedResult(reply)

\* get_afile_smetadata_or_content_by_id
GetAFileKeys ==
    StandardKeys \cup {"acknowledgeAbuse", "includeLabels", "includePermissionsForView",
                       "supportsAllDrives", "supportsTeamDrives", "userIp"}

get_afile_smetadata_or_content_by_id_start(a) ==
    IF a.fileId = PyNone THEN StepRaise("ValueError")
    ELSE StepCall(Call("helper", "GET", FileUrl(a.fileId), Args(a.kw, GetAFileKeys),
                       PyNone, PyNone, PyNone))

get_afile_smetadata_or_content_by_id_after_get(a, rs, reply) == GeneratedResult(reply)

\* update_afile_smetadata_and_or_content
UpdateAFileKeys ==
    StandardKeys \cup {"addParents", "enforceSingleParent", "includeLabels",
                       "includePermissionsForView", "keepRevisionForever", "ocrLanguage",
                       "removeParents", "supportsAllDrives", "supportsTeamDrives",
                       "useContentAsIndexableText", "userIp"}

UpdateAFileBodyKeys ==
    {"appProperties", "capabilities", "contentHints", "contentRestrictions",
     "copyRequiresWriterPermission", "createdTime", "description", "driveId",
     "explicitlyTrashed", "exportLinks", "fileExtension", "folderColorRgb",
     "fullFileExtension", "hasAugmentedPermissions", "hasThumbnail", "headRevisionId",
     "iconLink", "id", "imageMediaMetadata", "isAppAuthorized", "kind", "labelInfo",
     "lastModifyingUser", "linkShareMetadata", "md5Checksum", "mimeType", "modifiedByMe",
     "modifiedByMeTime", "modifiedTime", "name", "originalFilename", "ownedByMe", "owners",
     "parents", "permissionIds", "permissions", "properties", "quotaBytesUsed",
     "resourceKey", "sha1Checksum", "sha256Checksum", "shared", "sharedWithMeTime",
     "sharingUser", "shortcutDetails", "size", "spaces", "starred", "teamDriveId",
     "thumbnailLink", "thumbnailVersion", "trashed", "trashedTime", "trashingUser",
     "version", "videoMediaMetadata", "viewedByMe", "viewedByMeTime",
     "viewersCanCopyContent", "webContentLink", "webViewLink", "writersCanShare"}

\* as update_afile_smetadata_and_or_content_start, but sending the parents to
\* add and remove in the body
update_afile_sends_parents_in_body(a) ==
    IF a.fileId = PyNone THEN StepRaise("ValueError")
    ELSE StepCall(Call("helper", "PATCH", FileUrl(a.fileId),
                       Args(a.kw, UpdateAFileKeys \ {"addParents", "removeParents"}),
                       Args(a.kw, UpdateAFileBodyKeys \cup {"addParents", "removeParents"}),
                       PyNone, PyNone))

update_afile_smetadata_and_or_content_start(a) ==
    IF a.fileId = PyNone THEN StepRaise("ValueError")
    ELSE LET request_body == Args(a.kw, UpdateAFileBodyKeys)
             query_params == Args(a.kw, UpdateAFileKeys)
         IN  StepCall(Call("helper", "PATCH", FileUrl(a.fileId), query_params, request_body,
                           PyNone, PyNone))

update_afile_smetadata_and_or_content_after_patch(a, rs, reply) == GeneratedResult(reply)

\* grant_google_drive_access
GrantBodyKeys == {"emailAddress", "role", "type"}

grant_google_drive_access_start(a) ==
    IF a.fileId = PyNone THEN StepRaise("ValueError")
    ELSE StepCall(Call("helper", "POST",
                       Url(app.base_url,
                           <<DriveSegment, V3Segment, Files, Fmt(a.fileId), Permissions>>, ""),
                       EmptyDict, Args(a.kw, GrantBodyKeys), PyNone, PyNone))

grant_google_drive_access_after_post(a, rs, reply) == GeneratedResult(reply)

\* GoogleDriveApp has no attribute move_files: app.move_files(...) raises
\* AttributeError before anything is called.
move_files_start(a) == StepRaise("AttributeError")

-----------------------------------------------------------------------------
(* The arguments callers pass *)

NotesTxt == <<"n", "o", "t", "e", "s", ".", "t", "x", "t">>
Projects == <<"P", "r", "o", "j", "e", "c", "t", "s">>
Reports == <<"R", "e", "p", "o", "r", "t", "s">>

FileNames == {NotesTxt}
FolderNames == {Projects, Reports}

\* "", "hi", U+00E9 U+20AC U+1F600 (2, 3 and 4 bytes), and "h" followed by a lone surrogate
TextContents == {<<>>, <<104, 105>>, <<233, 8364, 128512>>, <<104, 55296>>}
TextMimeTypes == {PyStr("text/plain"), PyStr("text/csv")}
UploadMimeTypes == {PyNone, PyStr("image/png")}
LocalPaths == DOMAIN LocalFs

\* n characters of the ID alphabet, letters, digits, "_" and "-" among them
IdLike(n) == [i \in 1..n |-> IdAlphabet[((i * 7) % Len(IdAlphabet)) + 1]]
BoundaryLens == {IdMinLen - 1, IdMinLen, IdMaxLen, IdMaxLen + 1}

\* Around each boundary length: the ID-like string, and the same with a newline
\* or a "/" appended, with its last character a "/", with its first a space
Variants(s) ==
    {s, Append(s, Newline), Append(s, "/"), Append(Append(s, Newline), Newline),
     [s EXCEPT ![Len(s)] = "/"], [s EXCEPT ![1] = " "]}
ParentStrings ==
    UNION {Variants(IdLike(n)) : n \in BoundaryLens}
      \cup FolderNames \cup {FileIdOf(n) : n \in 1..MaxFiles}

FolderParentInputs == {PyNone, PyStr(<<>>)} \cup {PyStr(s) : s \in ParentStrings}
FileParentInputs == {PyNone, PyStr(<<>>), PyStr(Projects), PyStr(FileIdOf(1))}
DeleteIds == {PyStr(FileIdOf(n)) : n \in 1..(MaxFiles + 1)}

\* list_files: page sizes, queries (none, empty, the folders named Projects, a
\* malformed one) and orders (none, empty, by name)
PageSizes == {1, 10}
Queries == {PyNone, PyStr(<<>>), PyStr(FolderQuery(Projects)), PyStr(<<"name=">>)}
Orders == {PyNone, PyStr(<<>>), PyStr(<<"n", "a", "m", "e">>)}

\* get_file: the ids the remote can have handed out, and one it has not
GetFileIds == DeleteIds

\* find_folder_id_by_name: the folder names, and one with a quote in it
FindFolderNames == FolderNames \cup {<<"O", "'", "B">>}

\* The generated operations: required ids, None among them, and keyword arguments
RequiredIds == {PyNone, PyStr(FileIdOf(1)), PyStr(FileIdOf(MaxFiles + 1))}
AppIds == {PyNone, PyStr(<<"a", "1">>)}
CommentIds == {PyNone, PyStr(<<"c", "1">>)}
NoKw == <<>>
FieldsKws == {NoKw, ("fields" :> PyStr(<<"i", "d">>)), ("fields" :> PyNone)}
MoveKw(add, remove) == ("addParents" :> add) @@ ("removeParents" :> remove)
UpdateKws ==
    {NoKw, MoveKw(PyStr(FileIdOf(MaxFiles)), PyNone),
     MoveKw(PyStr(FileIdOf(MaxFiles)), PyStr(FileIdOf(MaxFiles + 1)))}
GrantKws ==
    {NoKw, ("emailAddress" :> PyStr(<<"a", "@", "b">>)) @@ ("role" :> PyStr(<<"r">>))
             @@ ("type" :> PyStr(<<"u">>))}

-----------------------------------------------------------------------------
(* The state machine *)

NoOp == [name |-> "none"]
NoResult == [kind |-> "none", value |-> PyNone, exc |-> ""]

Init ==
    /\ app = [name |-> "google-drive", base_url |-> BaseUrl]
    /\ helperRaises \in BOOLEAN
    /\ active = {1}
    /\ drive = <<>>
    /\ nextId = 1
    /\ pc = [c \in Callers |-> "idle"]
    /\ op = [c \in Callers |-> NoOp]
    /\ calls = [c \in Callers |-> <<>>]
    /\ resps = [c \in Callers |-> <<>>]
    /\ created = [c \in Callers |-> {}]
    /\ result = [c \in Callers |-> NoResult]

\* Which piece of code waits for the reply to a call
WaitLabel(call) ==
    CASE call.verb = "POST" -> "after_post"
      [] call.verb = "PATCH" -> "after_patch"
      [] call.verb = "DELETE" -> "after_delete"
      [] OTHER -> "after_get"

\* The invocation of caller c goes on as the step st says: the call is issued
\* and waited for, or the invocation ends with a value or an exception.
Proceed(c, callsBefore, st) ==
    /\ calls' = [calls EXCEPT ![c] =
                    IF st.kind = "call" THEN Append(callsBefore, st.call) ELSE callsBefore]
    /\ pc' = [pc EXCEPT ![c] = IF st.kind = "call" THEN WaitLabel(st.call) ELSE "done"]
    /\ result' = [result EXCEPT ![c] =
                    IF st.kind = "call" THEN NoResult
                    ELSE [kind |-> st.kind, value |-> st.value, exc |-> st.exc]]

\* as Invoke, but with a lock around every invocation: nothing is invoked
\* while another caller is inside an operation
InvokeExclusive(c, a, st) ==
    /\ c \in active
    /\ \A d \in Callers : pc[d] = "idle"
    /\ op' = [op EXCEPT ![c] = a]
    /\ resps' = [resps EXCEPT ![c] = <<>>]
    /\ created' = [created EXCEPT ![c] = {}]
    /\ Proceed(c, <<>>, st)
    /\ UNCHANGED <<app, helperRaises, active, drive, nextId>>

\* A caller that is not inside an invocation invokes an operation with arguments a.
Invoke(c, a, st) ==
    /\ c \in active
    /\ pc[c] = "idle"
    /\ op' = [op EXCEPT ![c] = a]
    /\ resps' = [resps EXCEPT ![c] = <<>>]
    /\ created' = [created EXCEPT ![c] = {}]
    /\ Proceed(c, <<>>, st)
    /\ UNCHANGED <<app, helperRaises, active, drive, nextId>>

\* Caller c is inside operation name, blocked on the call that label names.
Waiting(c, name, label) ==
    /\ pc[c] = label
    /\ op[c].name = name

\* The call caller c is blocked on
PendingCall(c) == calls[c][Len(calls[c])]

\* as Resume, but with the upload step leaving self.base_url at the upload base
ResumeRebasing(c, s, st) ==
    /\ drive' = s.drive
    /\ nextId' = s.nextId
    /\ resps' = [resps EXCEPT ![c] = Append(@, s.reply)]
    /\ created' = [created EXCEPT ![c] = @ \cup s.newIds]
    /\ Proceed(c, calls[c], st)
    /\ app' = IF st.kind = "call" /\ st.call.via = "httpx"
              THEN [app EXCEPT !.base_url = UploadBase] ELSE app
    /\ UNCHANGED <<helperRaises, active, op>>

\* The remote has served the call caller c waits on as s says, and the piece
\* of code that waited takes the invocation on as the step st says.
Resume(c, s, st) ==
    /\ drive' = s.drive
    /\ nextId' = s.nextId
    /\ resps' = [resps EXCEPT ![c] = Append(@, s.reply)]
    /\ created' = [created EXCEPT ![c] = @ \cup s.newIds]
    /\ Proceed(c, calls[c], st)
    /\ UNCHANGED <<app, helperRaises, active, op>>

CallCreateFileFromText(c) ==
    \E file_name \in FileNames, text_content \in TextContents,
       parent_id \in FileParentInputs, mime_type \in TextMimeTypes :
        LET a == [name |-> "create_file_from_text", file_name |-> file_name,
                  text_content |-> text_content, parent_id |-> parent_id,
                  mime_type |-> mime_type]
        IN  Invoke(c, a, create_file_from_text_start(a))

CreateFileFromTextPostReturns(c) ==
    /\ Waiting(c, "create_file_from_text", "after_post")
    /\ \E s \in DriveServe(PendingCall(c)) :
        Resume(c, s, create_file_from_text_after_post(op[c], resps[c], s.reply))

CreateFileFromTextPatchReturns(c) ==
    /\ Waiting(c, "create_file_from_text", "after_patch")
    /\ \E s \in DriveServe(PendingCall(c)) :
        Resume(c, s, create_file_from_text_after_patch(op[c], resps[c], s.reply))

CallUploadAFile(c) ==
    \E file_name \in FileNames, file_path \in LocalPaths,
       parent_id \in FileParentInputs, mime_type \in UploadMimeTypes :
        LET a == [name |-> "upload_a_file", file_name |-> file_name,
                  file_path |-> file_path, parent_id |-> parent_id,
                  mime_type |-> mime_type]
        IN  Invoke(c, a, upload_a_file_start(a))

UploadAFilePostReturns(c) ==
    /\ Waiting(c, "upload_a_file", "after_post")
    /\ \E s \in DriveServe(PendingCall(c)) :
        Resume(c, s, upload_a_file_after_post(op[c], resps[c], s.reply))

UploadAFilePatchReturns(c) ==
    /\ Waiting(c, "upload_a_file", "after_patch")
    /\ \E s \in DriveServe(PendingCall(c)) :
        Resume(c, s, upload_a_file_after_patch(op[c], resps[c], s.reply))

CallCreateFolder(c) ==
    \E folder_name \in FolderNames, parent_id \in FolderParentInputs :
        LET a == [name |-> "create_folder", folder_name |-> folder_name,
                  parent_id |-> parent_id]
        IN  Invoke(c, a, create_folder_start(a))

CreateFolderLookupReturns(c) ==
    /\ Waiting(c, "create_folder", "after_get")
    /\ \E s \in DriveServe(PendingCall(c)) :
        Resume(c, s, create_folder_after_lookup(op[c], resps[c], s.reply))

CreateFolderPostReturns(c) ==
    /\ Waiting(c, "create_folder", "after_post")
    /\ \E s \in DriveServe(PendingCall(c)) :
        Resume(c, s, create_folder_after_post(op[c], resps[c], s.reply))

CallDeleteFile(c) ==
    \E file_id \in DeleteIds :
        LET a == [name |-> "delete_file", file_id |-> file_id]
        IN  Invoke(c, a, delete_file_start(a))

DeleteFileReturns(c) ==
    /\ Waiting(c, "delete_file", "after_delete")
    /\ \E s \in DriveServe(PendingCall(c)) :
        Resume(c, s, delete_file_after_delete(op[c], resps[c], s.reply))

CallListFiles(c) ==
    \E page_size \in PageSizes, query \in Queries, order_by \in Orders :
        LET a == [name |-> "list_files", page_size |-> page_size, query |-> query,
                  order_by |-> order_by]
        IN  Invoke(c, a, list_files_start(a))

ListFilesReturns(c) ==
    /\ Waiting(c, "list_files", "after_get")
    /\ \E s \in DriveServe(PendingCall(c)) :
        Resume(c, s, list_files_after_get(op[c], resps[c], s.reply))

CallGetFile(c) ==
    \E file_id \in GetFileIds :
        LET a == [name |-> "get_file", file_id |-> file_id]
        IN  Invoke(c, a, get_file_start(a))

GetFileReturns(c) ==
    /\ Waiting(c, "get_file", "after_get")
    /\ \E s \in DriveServe(PendingCall(c)) :
        Resume(c, s, get_file_after_get(op[c], resps[c], s.reply))

CallFindFolderIdByName(c) ==
    \E folder_name \in FindFolderNames :
        LET a == [name |-> "find_folder_id_by_name", folder_name |-> folder_name]
        IN  Invoke(c, a, find_folder_id_by_name_start(a))

FindFolderIdByNameReturns(c) ==
    /\ Waiting(c, "find_folder_id_by_name", "after_get")
    /\ \E s \in DriveServe(PendingCall(c)) :
        Resume(c, s, find_folder_id_by_name_after_get(op[c], resps[c], s.reply))

CallGetASpecificApp(c) ==
    \E appId \in AppIds, kw \in FieldsKws :
        LET a == [name |-> "get_aspecific_app", appId |-> appId, kw |-> kw]
        IN  Invoke(c, a, get_aspecific_app_start(a))

GetASpecificAppReturns(c) ==
    /\ Waiting(c, "get_aspecific_app", "after_get")
    /\ \E s \in DriveServe(PendingCall(c)) :
        Resume(c, s, get_aspecific_app_after_get(op[c], resps[c], s.reply))

CallGetCommentById(c) ==
    \E fileId \in RequiredIds, commentId \in CommentIds, kw \in {NoKw} :
        LET a == [name |-> "get_comment_by_id", fileId |-> fileId, commentId |-> commentId,
                  kw |-> kw]
        IN  Invoke(c, a, get_comment_by_id_start(a))

GetCommentByIdReturns(c) ==
    /\ Waiting(c, "get_comment_by_id", "after_get")
    /\ \E s \in DriveServe(PendingCall(c)) :
        Resume(c, s, get_comment_by_id_after_get(op[c], resps[c], s.reply))

CallGetAFileSMetadataOrContentById(c) ==
    \E fileId \in RequiredIds, kw \in FieldsKws :
        LET a == [name |-> "get_afile_smetadata_or_content_by_id", fileId |-> fileId,
                  kw |-> kw]
        IN  Invoke(c, a, get_afile_smetadata_or_content_by_id_start(a))

GetAFileSMetadataOrContentByIdReturns(c) ==
    /\ Waiting(c, "get_afile_smetadata_or_content_by_id", "after_get")
    /\ \E s \in DriveServe(PendingCall(c)) :
        Resume(c, s, get_afile_smetadata_or_content_by_id_after_get(op[c], resps[c], s.reply))

CallUpdateAFileSMetadataAndOrContent(c) ==
    \E fileId \in RequiredIds, kw \in UpdateKws :
        LET a == [name |-> "update_afile_smetadata_and_or_content", fileId |-> fileId,
                  kw |-> kw]
        IN  Invoke(c, a, update_afile_smetadata_and_or_content_start(a))

UpdateAFileSMetadataAndOrContentReturns(c) ==
    /\ Waiting(c, "update_afile_smetadata_and_or_content", "after_patch")
    /\ \E s \in DriveServe(PendingCall(c)) :
        Resume(c, s, update_afile_smetadata_and_or_content_after_patch(op[c], resps[c], s.reply))

CallGrantGoogleDriveAccess(c) ==
    \E fileId \in RequiredIds, kw \in GrantKws :
        LET a == [name |-> "grant_google_drive_access", fileId |-> fileId, kw |-> kw]
        IN  Invoke(c, a, grant_google_drive_access_start(a))

GrantGoogleDriveAccessReturns(c) ==
    /\ Waiting(c, "grant_google_drive_access", "after_post")
    /\ \E s \in DriveServe(PendingCall(c)) :
        Resume(c, s, grant_google_drive_access_after_post(op[c], resps[c], s.reply))

CallMoveFiles(c) ==
    \E file_id \in GetFileIds, add_parents \in {PyStr(FileIdOf(MaxFiles))},
       remove_parents \in {PyStr(FileIdOf(MaxFiles + 1))} :
        LET a == [name |-> "move_files", file_id |-> file_id, add_parents |-> add_parents,
                  remove_parents |-> remove_parents]
        IN  Invoke(c, a, move_files_start(a))

\* The caller takes the value or the exception its invocation ended with;
\* nothing of the invocation is kept.
TakeResult(c) ==
    /\ pc[c] = "done"
    /\ pc' = [pc EXCEPT ![c] = "idle"]
    /\ op' = [op EXCEPT ![c] = NoOp]
    /\ calls' = [calls EXCEPT ![c] = <<>>]
    /\ resps' = [resps EXCEPT ![c] = <<>>]
    /\ created' = [created EXCEPT ![c] = {}]
    /\ result' = [result EXCEPT ![c] = NoResult]
    /\ UNCHANGED <<app, helperRaises, active, drive, nextId>>

Next ==
    \E c \in Callers :
        \/ CallCreateFileFromText(c)
        \/ CreateFileFromTextPostReturns(c)
        \/ CreateFileFromTextPatchReturns(c)
        \/ CallUploadAFile(c)
        \/ UploadAFilePostReturns(c)
        \/ UploadAFilePatchReturns(c)
        \/ CallCreateFolder(c)
        \/ CreateFolderLookupReturns(c)
        \/ CreateFolderPostReturns(c)
        \/ CallDeleteFile(c)
        \/ DeleteFileReturns(c)
        \/ CallListFiles(c)
        \/ ListFilesReturns(c)
        \/ CallGetFile(c)
        \/ GetFileReturns(c)
        \/ CallFindFolderIdByName(c)
        \/ FindFolderIdByNameReturns(c)
        \/ CallGetASpecificApp(c)
        \/ GetASpecificAppReturns(c)
        \/ CallGetCommentById(c)
        \/ GetCommentByIdReturns(c)
        \/ CallGetAFileSMetadataOrContentById(c)
        \/ GetAFileSMetadataOrContentByIdReturns(c)
        \/ CallUpdateAFileSMetadataAndOrContent(c)
        \/ UpdateAFileSMetadataAndOrContentReturns(c)
        \/ CallGrantGoogleDriveAccess(c)
        \/ GrantGoogleDriveAccessReturns(c)
        \/ CallMoveFiles(c)
        \/ TakeResult(c)

Spec == Init /\ [][Next]_vars

-----------------------------------------------------------------------------
(* Several callers at once on the same application object and the same      *)
(* remote: each makes one invocation, of a two-call creation or of a read,   *)
(* with one choice of arguments, and the calls of the different callers are  *)
(* interleaved in every order.                                               *)

InitConcurrent ==
    /\ app = [name |-> "google-drive", base_url |-> BaseUrl]
    /\ helperRaises \in BOOLEAN
    /\ active = Callers
    /\ drive = <<>>
    /\ nextId = 1
    /\ pc = [c \in Callers |-> "idle"]
    /\ op = [c \in Callers |-> NoOp]
    /\ calls = [c \in Callers |-> <<>>]
    /\ resps = [c \in Callers |-> <<>>]
    /\ created = [c \in Callers |-> {}]
    /\ result = [c \in Callers |-> NoResult]

ConcurrentCreateFileFromText(c) ==
    LET a == [name |-> "create_file_from_text", file_name |-> NotesTxt,
              text_content |-> <<104, 105>>, parent_id |-> PyNone,
              mime_type |-> PyStr("text/plain")]
    IN  Invoke(c, a, create_file_from_text_start(a))

ConcurrentUploadAFile(c) ==
    LET a == [name |-> "upload_a_file", file_name |-> NotesTxt, file_path |-> "/data/a.png",
              parent_id |-> PyNone, mime_type |-> PyStr("image/png")]
    IN  Invoke(c, a, upload_a_file_start(a))

ConcurrentListFiles(c) ==
    LET a == [name |-> "list_files", page_size |-> 10, query |-> PyNone, order_by |-> PyNone]
    IN  Invoke(c, a, list_files_start(a))

ConcurrentGetFile(c) ==
    \E n \in 1..MaxFiles :
        LET a == [name |-> "get_file", file_id |-> PyStr(FileIdOf(n))]
        IN  Invoke(c, a, get_file_start(a))

NextConcurrent ==
    \E c \in Callers :
        \/ ConcurrentCreateFileFromText(c)
        \/ CreateFileFromTextPostReturns(c)
        \/ CreateFileFromTextPatchReturns(c)
        \/ ConcurrentUploadAFile(c)
        \/ UploadAFilePostReturns(c)
        \/ UploadAFilePatchReturns(c)
        \/ ConcurrentListFiles(c)
        \/ ListFilesReturns(c)
        \/ ConcurrentGetFile(c)
        \/ GetFileReturns(c)

SpecConcurrent == InitConcurrent /\ [][NextConcurrent]_vars

-----------------------------------------------------------------------------
(* Vocabulary of the properties *)

IsOp(c, name) == op[c].name = name
Returned2xx(c, i) == Len(resps[c]) >= i /\ IsSuccess(resps[c][i])
Failed(c, i) == Len(resps[c]) >= i /\ ~IsSuccess(resps[c][i])
EndedWith(c, kind) == pc[c] = "done" /\ result[c].kind = kind
VerbsOf(c) == [i \in 1..Len(calls[c]) |-> calls[c][i].verb]

\* The pattern as the specification words it: IdMinLen to IdMaxLen characters,
\* every one a letter, a digit, "_" or "-"
SpecIdPattern(s) ==
    /\ Len(s) >= IdMinLen
    /\ Len(s) <= IdMaxLen
    /\ \A i \in 1..Len(s) : s[i] \in IdChars

\* The first call of a create_folder invocation took parent_id for an ID: it
\* is the folder-create POST with parents = [parent_id]
ClassifiedAsId(c) ==
    /\ calls[c][1].verb = "POST"
    /\ "parents" \in DOMAIN calls[c][1].json
    /\ calls[c][1].json["parents"] = <<op[c].parent_id>>

\* The first call of a create_folder invocation is the lookup of parent_id as a name
LooksUpByName(c) ==
    /\ calls[c][1].verb = "GET"
    /\ calls[c][1].params["q"][2] = op[c].parent_id.s

\* The text a sequence of bytes is the UTF-8 encoding of
RECURSIVE Utf8Decode(_)
Utf8Decode(b) ==
    IF b = <<>> THEN <<>>
    ELSE IF b[1] < 128 THEN <<b[1]>> \o Utf8Decode(SubSeq(b, 2, Len(b)))
    ELSE IF b[1] < 224
        THEN <<(b[1] - 192) * 64 + (b[2] - 128)>> \o Utf8Decode(SubSeq(b, 3, Len(b)))
    ELSE IF b[1] < 240
        THEN <<(b[1] - 224) * 4096 + (b[2] - 128) * 64 + (b[3] - 128)>>
             \o Utf8Decode(SubSeq(b, 4, Len(b)))
    ELSE <<(b[1] - 240) * 262144 + (b[2] - 128) * 4096 + (b[3] - 128) * 64 + (b[4] - 128)>>
         \o Utf8Decode(SubSeq(b, 5, Len(b)))

-----------------------------------------------------------------------------
(* Properties *)

\* C1: a create_file_from_text invocation never has its PATCH out before the
\* reply to its POST is in, and one that returns has issued exactly two calls:
\* the POST to the files-create endpoint with body {name, mimeType} plus
\* parents = [parent_id] only when a parent_id was supplied, then the PATCH to
\* the upload endpoint of the id the POST returned, with the UTF-8 bytes of
\* text_content; the value returned is the JSON of the PATCH's reply.
C1_CreateFileFromTextTwoCalls ==
    \A c \in Callers : IsOp(c, "create_file_from_text") =>
        /\ Len(calls[c]) <= Len(resps[c]) + 1
        /\ Len(calls[c]) >= 2 => resps[c][1].status # 0
        /\ EndedWith(c, "return") =>
            LET post == calls[c][1]
                patch == calls[c][2]
            IN  /\ Len(calls[c]) = 2
                /\ VerbsOf(c) = <<"POST", "PATCH">>
                /\ post.url = Url(BaseUrl, <<Files>>, "")
                /\ DOMAIN post.json \in {{"name", "mimeType"}, {"name", "mimeType", "parents"}}
                /\ post.json["name"] = PyStr(op[c].file_name)
                /\ post.json["mimeType"] = op[c].mime_type
                /\ "parents" \in DOMAIN post.json =>
                    /\ op[c].parent_id # PyNone
                    /\ post.json["parents"] = <<op[c].parent_id>>
                /\ patch.url = Url(UploadBase, <<Files, resps[c][1].json["id"].s>>,
                                   "uploadType=media")
                /\ Utf8Decode(patch.content) = op[c].text_content
                /\ result[c].value = resps[c][2].json

C1_Witness ==
    \E c \in Callers :
        /\ IsOp(c, "create_file_from_text")
        /\ EndedWith(c, "return")
        /\ Len(op[c].text_content) > 0
        /\ "parents" \in DOMAIN calls[c][1].json
        /\ resps[c][1].json # resps[c][2].json

\* C2 (as stated): whenever upload_a_file fails with a filesystem error, the
\* invocation has made no network call and has created no remote resource.
C2_NoCallBeforeFilesystemError ==
    \A c \in Callers :
        (IsOp(c, "upload_a_file") /\ EndedWith(c, "raise") /\ result[c].exc \in FsErrors) =>
            /\ calls[c] = <<>>
            /\ created[c] = {}

\* C2 (amended): whenever upload_a_file fails with a filesystem error, the
\* invocation has made exactly one network call, the metadata-create POST,
\* whose reply is in, and no PATCH; if that POST succeeded, the one resource it
\* created is left on the remote without content, and otherwise the invocation
\* has created none.
C2_FilesystemErrorAfterPost ==
    \A c \in Callers :
        (IsOp(c, "upload_a_file") /\ EndedWith(c, "raise") /\ result[c].exc \in FsErrors) =>
            /\ VerbsOf(c) = <<"POST">>
            /\ Len(resps[c]) = 1
            /\ resps[c][1].status # 0
            /\ IsSuccess(resps[c][1]) =>
                /\ Cardinality(created[c]) = 1
                /\ \A id \in created[c] : id \in DOMAIN drive /\ drive[id].version = 1
            /\ ~IsSuccess(resps[c][1]) => created[c] = {}

C2_Witness ==
    \E c \in Callers :
        /\ IsOp(c, "upload_a_file")
        /\ EndedWith(c, "raise")
        /\ result[c].exc = "FileNotFoundError"
        /\ IsSuccess(resps[c][1])
        /\ created[c] # {}

\* C3: create_folder takes a parent_id for an ID exactly when it is IdMinLen to
\* IdMaxLen characters, all letters, digits, "_" or "-": such a string goes
\* verbatim into parents of the POST, with no lookup GET, and no other string
\* (shorter, longer, or with any other character) is taken for an ID.
C3_IdPatternClassification ==
    \A c \in Callers :
        (IsOp(c, "create_folder") /\ op[c].parent_id.tag = "str" /\ calls[c] # <<>>) =>
            /\ SpecIdPattern(op[c].parent_id.s) =>
                /\ ClassifiedAsId(c)
                /\ \A i \in 1..Len(calls[c]) : calls[c][i].verb # "GET"
            /\ ~SpecIdPattern(op[c].parent_id.s) => ~ClassifiedAsId(c)

\* C4: for every parent_id that is not IdMinLen to IdMaxLen characters of the
\* ID alphabet, the empty string among them, create_folder looks the parent up
\* by name, and fails with ValueError when the lookup returns absence.
C4_NonIdParentIsLookedUp ==
    \A c \in Callers :
        (/\ IsOp(c, "create_folder")
         /\ op[c].parent_id.tag = "str"
         /\ ~SpecIdPattern(op[c].parent_id.s)
         /\ calls[c] # <<>>) =>
            /\ LooksUpByName(c)
            /\ (Len(resps[c]) >= 1 /\ find_folder_id_by_name_result(resps[c][1]) = PyNone) =>
                /\ EndedWith(c, "raise")
                /\ result[c].exc = "ValueError"

\* C5: a create_folder invocation whose parent-name lookup returned absence has
\* issued the lookup GET and no other call, and has ended with ValueError.
C5_NoPostAfterFailedLookup ==
    \A c \in Callers :
        (/\ IsOp(c, "create_folder")
         /\ calls[c] # <<>>
         /\ calls[c][1].verb = "GET"
         /\ Len(resps[c]) >= 1
         /\ find_folder_id_by_name_result(resps[c][1]) = PyNone) =>
            /\ VerbsOf(c) = <<"GET">>
            /\ EndedWith(c, "raise")
            /\ result[c].exc = "ValueError"

C5_Witness ==
    \E c \in Callers :
        /\ IsOp(c, "create_folder")
        /\ VerbsOf(c) = <<"GET">>
        /\ Len(resps[c]) = 1
        /\ IsSuccess(resps[c][1])
        /\ DictGet(resps[c][1].json, "files", <<"missing">>) = <<>>
        /\ EndedWith(c, "raise")

C7_DeleteMessageIffDeleted ==
    \A c \in Callers : (IsOp(c, "delete_file") /\ pc[c] = "done") =>
        /\ (result[c].value = ("message" :> "File deleted successfully"))
               <=> IsSuccess(resps[c][1])
        /\ ~IsSuccess(resps[c][1]) => DOMAIN result[c].value = {"error"}

\* C8: a create_file_from_text, upload_a_file or create_folder invocation that
\* returns normally has created exactly one remote resource.
C8_ExactlyOneResourcePerReturn ==
    \A c \in Callers :
        (/\ op[c].name \in {"create_file_from_text", "upload_a_file", "create_folder"}
         /\ EndedWith(c, "return")) =>
            Cardinality(created[c]) = 1

\* C9: in create_file_from_text and upload_a_file, when the metadata-create
\* call fails, the invocation has created no remote resource, issues no PATCH
\* and ends with an exception.
C9_CreateFailureStopsTheInvocation ==
    \A c \in Callers :
        (op[c].name \in {"create_file_from_text", "upload_a_file"} /\ Failed(c, 1)) =>
            /\ created[c] = {}
            /\ VerbsOf(c) = <<"POST">>
            /\ EndedWith(c, "raise")

\* C10: in create_file_from_text and upload_a_file, when the metadata-create
\* call succeeded and the content-upload call failed, the invocation ends with
\* an exception, has issued just the POST and the one PATCH (no DELETE, no
\* second PATCH), and the resource the POST created is still on the remote,
\* without content.
C10_UploadFailureLeavesOrphan ==
    \A c \in Callers :
        (/\ op[c].name \in {"create_file_from_text", "upload_a_file"}
         /\ Returned2xx(c, 1)
         /\ Failed(c, 2)) =>
            /\ EndedWith(c, "raise")
            /\ VerbsOf(c) = <<"POST", "PATCH">>
            /\ Cardinality(created[c]) = 1
            /\ \A id \in created[c] : id \in DOMAIN drive /\ drive[id].version = 1

C10_Witness ==
    \E c \in Callers :
        /\ IsOp(c, "upload_a_file")
        /\ Returned2xx(c, 1)
        /\ Failed(c, 2)
        /\ resps[c][2].status = 403
        /\ EndedWith(c, "raise")

\* C11 (as stated): every request of list_files carries pageSize, and carries q
\* (orderBy) exactly when the caller passed a value for query (order_by), the
\* empty string counting as a value.
C11_ListParamsIffArgumentPassed ==
    \A c \in Callers : (IsOp(c, "list_files") /\ calls[c] # <<>>) =>
        LET params == calls[c][1].params
        IN  /\ "pageSize" \in DOMAIN params
            /\ "q" \in DOMAIN params <=> op[c].query # PyNone
            /\ "orderBy" \in DOMAIN params <=> op[c].order_by # PyNone

\* C11 (amended): list_files issues one GET to the files collection whose
\* parameters are pageSize = page_size, always, q = query exactly when query is
\* a non-empty string, orderBy = order_by exactly when order_by is a non-empty
\* string, and nothing else; None and the empty string both leave the
\* parameter out.
C11_ListParamsIffNonEmpty ==
    \A c \in Callers : IsOp(c, "list_files") =>
        /\ Len(calls[c]) = 1
        /\ LET get == calls[c][1]
                nonEmpty(v) == v # PyNone /\ v # PyStr(<<>>)
           IN  /\ get.verb = "GET"
               /\ get.url = Url(BaseUrl, <<Files>>, "")
               /\ DOMAIN get.params \subseteq {"pageSize", "q", "orderBy"}
               /\ "pageSize" \in DOMAIN get.params
               /\ get.params["pageSize"] = op[c].page_size
               /\ "q" \in DOMAIN get.params <=> nonEmpty(op[c].query)
               /\ "q" \in DOMAIN get.params => get.params["q"] = op[c].query.s
               /\ "orderBy" \in DOMAIN get.params <=> nonEmpty(op[c].order_by)
               /\ "orderBy" \in DOMAIN get.params => get.params["orderBy"] = op[c].order_by.s

C11_Witness ==
    \E c \in Callers :
        /\ IsOp(c, "list_files")
        /\ op[c].query = PyStr(<<>>)
        /\ op[c].order_by # PyNone
        /\ op[c].order_by # PyStr(<<>>)
        /\ DOMAIN calls[c][1].params = {"pageSize", "orderBy"}
        /\ EndedWith(c, "return")

\* A reply to the lookup GET that is a well-formed listing: a 2xx whose body
\* has no files array, or one in which every element has an id
WellFormedListing(reply) ==
    /\ IsSuccess(reply)
    /\ \A i \in 1..Len(DictGet(reply.json, "files", <<>>)) :
            "id" \in DOMAIN reply.json["files"][i]

\* C12: a find_folder_id_by_name invocation that was answered with a
\* well-formed listing returns the id of the first element of files when files
\* is non-empty and None when it is empty or missing; it does not raise.
C12_FirstMatchOrAbsence ==
    \A c \in Callers :
        (/\ IsOp(c, "find_folder_id_by_name")
         /\ Len(resps[c]) = 1
         /\ WellFormedListing(resps[c][1])) =>
            LET files == DictGet(resps[c][1].json, "files", <<>>)
            IN  /\ EndedWith(c, "return")
                /\ files # <<>> => result[c].value = files[1]["id"]
                /\ files = <<>> => result[c].value = PyNone

C12_Witness ==
    \E c \in Callers :
        /\ IsOp(c, "find_folder_id_by_name")
        /\ EndedWith(c, "return")
        /\ IsSuccess(resps[c][1])
        /\ Len(DictGet(resps[c][1].json, "files", <<>>)) = 2
        /\ result[c].value = PyStr(FileIdOf(2))

\* C13: find_folder_id_by_name never ends with an exception: when the
\* transport call raised, or the listing has a first element without an id,
\* it returns None, the value it returns for an empty listing.
C13_FindFolderNeverRaises ==
    \A c \in Callers : IsOp(c, "find_folder_id_by_name") =>
        /\ result[c].kind # "raise"
        /\ Len(resps[c]) = 1 =>
            LET files == DictGet(resps[c][1].json, "files", <<>>)
            IN  /\ EndedWith(c, "return")
                /\ (\/ HelperOutcome(resps[c][1]).raised
                    \/ files = <<>>
                    \/ "id" \notin DOMAIN files[1]) => result[c].value = PyNone

C13_Witness ==
    \E c \in Callers :
        /\ IsOp(c, "find_folder_id_by_name")
        /\ EndedWith(c, "return")
        /\ IsSuccess(resps[c][1])
        /\ DictGet(resps[c][1].json, "files", <<>>) # <<>>
        /\ "id" \notin DOMAIN resps[c][1].json["files"][1]
        /\ result[c].value = PyNone

C15_ReadsPropagateErrors ==
    \A c \in Callers :
        (op[c].name \in {"get_file", "list_files"} /\ Failed(c, 1)) => EndedWith(c, "raise")

GeneratedOps ==
    {"get_aspecific_app", "get_comment_by_id", "get_afile_smetadata_or_content_by_id",
     "update_afile_smetadata_and_or_content", "grant_google_drive_access"}

MissingRequired(a) ==
    CASE a.name = "get_aspecific_app" -> a.appId = PyNone
      [] a.name = "get_comment_by_id" -> a.fileId = PyNone \/ a.commentId = PyNone
      [] OTHER -> a.fileId = PyNone

\* C17: an invocation of a generated operation that passes None for a
\* required path parameter ends with ValueError and has issued no HTTP call;
\* no call of a generated operation has the text None for a path segment.
C17_ValidationBeforeAnyCall ==
    \A c \in Callers : op[c].name \in GeneratedOps =>
        /\ MissingRequired(op[c]) =>
            /\ calls[c] = <<>>
            /\ EndedWith(c, "raise")
            /\ result[c].exc = "ValueError"
        /\ \A i \in 1..Len(calls[c]) :
            \A j \in 1..Len(calls[c][i].url.path) : calls[c][i].url.path[j] # NoneChars

C17_Witness ==
    \E c \in Callers :
        /\ IsOp(c, "get_comment_by_id")
        /\ op[c].fileId # PyNone
        /\ op[c].commentId = PyNone
        /\ calls[c] = <<>>
        /\ EndedWith(c, "raise")
        /\ result[c].exc = "ValueError"
        /\ drive # <<>>

\* C19: the application object keeps the name and the base URL it was
\* constructed with whatever operations run, and every call made through the
\* transport helpers goes to that base URL.
C19_AppIsNeverModified ==
    /\ app = [name |-> "google-drive", base_url |-> BaseUrl]
    /\ \A c \in Callers : \A i \in 1..Len(calls[c]) :
            calls[c][i].via = "helper" => calls[c][i].url.base = BaseUrl

C19_Witness ==
    \E c \in Callers :
        /\ IsOp(c, "get_file")
        /\ \E id \in DOMAIN drive : drive[id].version = 2
        /\ calls[c] # <<>>
        /\ calls[c][1].url.base = BaseUrl
        /\ app.base_url = BaseUrl

\* C20: every upload PATCH of upload_a_file has for Content-Type the string
\* mime_type as passed, every one of create_file_from_text mime_type followed
\* by "; charset=utf-8", and no invocation of either, mime_type left at its
\* default included, fails for a header value that is not a string.
C20_ContentTypeIsAString ==
    \A c \in Callers : op[c].name \in {"create_file_from_text", "upload_a_file"} =>
        /\ ~(EndedWith(c, "raise") /\ result[c].exc = "TypeError")
        /\ Len(calls[c]) >= 2 =>
            LET contentType == calls[c][2].headers["Content-Type"]
            IN  /\ contentType.tag = "str"
                /\ IsOp(c, "upload_a_file") => contentType = op[c].mime_type
                /\ IsOp(c, "create_file_from_text") =>
                       contentType.s = op[c].mime_type.s \o "; charset=utf-8"

\* Caller c is between the two calls of a creation: its metadata-create POST
\* has succeeded and its content-upload PATCH has not been answered
InWindow(c) ==
    /\ op[c].name \in {"create_file_from_text", "upload_a_file"}
    /\ pc[c] = "after_patch"
    /\ Returned2xx(c, 1)

\* C18: while a caller is between the two calls of create_file_from_text or
\* upload_a_file, the resource its POST created is on the remote without
\* content, and nothing keeps another caller from reading it in that state:
\* an idle caller can invoke get_file and list_files, and a get_file or
\* list_files GET that is pending can be answered with that resource as it is.
C18_WindowIsObservable ==
    \A c \in Callers : InWindow(c) =>
        \A id \in created[c] :
            /\ id \in DOMAIN drive
            /\ drive[id].version = 1
            /\ \A d \in Callers \ {c} :
                /\ pc[d] = "idle" =>
                    /\ ENABLED ConcurrentGetFile(d)
                    /\ ENABLED ConcurrentListFiles(d)
                /\ (Waiting(d, "get_file", "after_get") /\ op[d].file_id = PyStr(id)) =>
                    /\ ENABLED GetFileReturns(d)
                    /\ \E s \in DriveServe(PendingCall(d)) :
                            s.reply = Reply(200, ResourceJson(id, Resource(NotesTxt, FALSE, 1)))
                /\ Waiting(d, "list_files", "after_get") =>
                    /\ ENABLED ListFilesReturns(d)
                    /\ \E s \in DriveServe(PendingCall(d)) :
                            /\ IsSuccess(s.reply)
                            /\ \E i \in 1..Len(DictGet(s.reply.json, "files", <<>>)) :
                                    s.reply.json["files"][i] =
                                        ResourceJson(id, Resource(NotesTxt, FALSE, 1))

C18_Witness ==
    \E c, d \in Callers :
        /\ c # d
        /\ InWindow(c)
        /\ op[d].name \in {"get_file", "list_files"}
        /\ EndedWith(d, "return")
        /\ IsSuccess(resps[d][1])
        /\ \E id \in created[c] :
            LET seen == ResourceJson(id, Resource(NotesTxt, FALSE, 1))
            IN  \/ IsOp(d, "get_file") /\ result[d].value = seen
                \/ /\ IsOp(d, "list_files")
                   /\ \E i \in 1..Len(DictGet(result[d].value, "files", <<>>)) :
                          result[d].value["files"][i] = seen

\* The positions, among the calls of caller c, of the calls with the given verb
CallsWith(c, verb) == {i \in 1..Len(calls[c]) : calls[c][i].verb = verb}

\* C21: a create_folder invocation issues at most one POST, and exactly one
\* when it returns; that POST goes to the files endpoint with the query
\* parameters {supportsAllDrives: "true"} and a body whose mimeType is the
\* folder type and whose name is folder_name; the body has parents only when a
\* parent_id was supplied, and parents then has exactly one element.
C21_CreateFolderPost ==
    \A c \in Callers : IsOp(c, "create_folder") =>
        /\ Cardinality(CallsWith(c, "POST")) <= 1
        /\ EndedWith(c, "return") => Cardinality(CallsWith(c, "POST")) = 1
        /\ \A i \in CallsWith(c, "POST") :
            LET post == calls[c][i]
            IN  /\ post.url = Url(BaseUrl, <<Files>>, "")
                /\ post.params = ("supportsAllDrives" :> "true")
                /\ DOMAIN post.json \in {{"name", "mimeType"}, {"name", "mimeType", "parents"}}
                /\ post.json["mimeType"] = PyStr(FolderMime)
                /\ post.json["name"] = PyStr(op[c].folder_name)
                /\ "parents" \in DOMAIN post.json =>
                    /\ op[c].parent_id \notin {PyNone, PyStr(<<>>)}
                    /\ Len(post.json["parents"]) = 1

C21_Witness ==
    \E c \in Callers :
        /\ IsOp(c, "create_folder")
        /\ EndedWith(c, "return")
        /\ VerbsOf(c) = <<"GET", "POST">>
        /\ Len(calls[c][2].json["parents"]) = 1
        /\ calls[c][2].params = ("supportsAllDrives" :> "true")

\* The keys and values a call of a generated operation sends: its query
\* parameters and, when it has a body, the body
SentDict(call) == IF call.json = PyNone THEN call.params ELSE call.params @@ call.json

\* C22: in every call of a generated operation, a key is sent (in the query
\* parameters or in the body) exactly when the caller passed a value other
\* than None for it, the value sent is the value passed, and nothing is sent
\* with the value None; the keys of the query and those of the body are apart.
C22_NoneIsNeverSent ==
    \A c \in Callers : op[c].name \in GeneratedOps =>
        \A i \in 1..Len(calls[c]) :
            LET call == calls[c][i]
                sent == SentDict(call)
            IN  /\ \A k \in DOMAIN sent : sent[k] # PyNone
                /\ \A k \in DOMAIN sent \cup DOMAIN op[c].kw :
                    /\ k \in DOMAIN sent <=> Arg(op[c].kw, k) # PyNone
                    /\ k \in DOMAIN sent => sent[k] = op[c].kw[k]
                /\ call.json # PyNone => DOMAIN call.params \cap DOMAIN call.json = {}

C22_Witness ==
    \E c \in Callers :
        /\ IsOp(c, "update_afile_smetadata_and_or_content")
        /\ Len(calls[c]) = 1
        /\ DOMAIN op[c].kw = {"addParents", "removeParents"}
        /\ Arg(op[c].kw, "addParents") # PyNone
        /\ Arg(op[c].kw, "removeParents") = PyNone
        /\ DOMAIN calls[c][1].params = {"addParents"}
        /\ calls[c][1].json = EmptyDict

\* The operations that make a second call: the two create-then-upload ones, and
\* create_folder when parent_id is given and is not an ID
IssuesTwo(a) ==
    \/ a.name \in {"create_file_from_text", "upload_a_file"}
    \/ /\ a.name = "create_folder"
       /\ Truthy(a.parent_id)
       /\ ~SpecIdPattern(a.parent_id.s)

\* What C23 says of every operation: at most two calls, the second out only
\* once the reply to the first is in, the invocation over only once every
\* call is answered; two calls only from the operations of IssuesTwo.
AtMostTwoSequentialCalls(c) ==
    /\ Len(calls[c]) <= 2
    /\ Len(calls[c]) <= Len(resps[c]) + 1
    /\ pc[c] = "done" => Len(resps[c]) = Len(calls[c])
    /\ Len(calls[c]) = 2 => IssuesTwo(op[c])

\* C23 (as stated): every operation issues at most two calls, one after the
\* other, and only the operations of IssuesTwo issue two; every invocation of
\* a generated operation issues exactly one call.
C23_GeneratedIssueExactlyOne ==
    \A c \in Callers :
        /\ AtMostTwoSequentialCalls(c)
        /\ (op[c].name \in GeneratedOps /\ pc[c] # "idle") => Len(calls[c]) = 1

\* C23 (amended): every operation issues at most two calls, one after the
\* other, and only the operations of IssuesTwo issue two; an invocation of a
\* generated operation issues exactly one call, except that it issues none
\* when a required path parameter is None.
C23_GeneratedIssueOneUnlessInvalid ==
    \A c \in Callers :
        /\ AtMostTwoSequentialCalls(c)
        /\ (op[c].name \in GeneratedOps /\ pc[c] # "idle") =>
            Len(calls[c]) = IF MissingRequired(op[c]) THEN 0 ELSE 1

C23_Witness ==
    \E c \in Callers :
        /\ IsOp(c, "update_afile_smetadata_and_or_content")
        /\ op[c].fileId = PyNone
        /\ op[c].kw # NoKw
        /\ pc[c] = "done"
        /\ calls[c] = <<>>

\* C24: no invocation issues again a call of its own that has failed; and a
\* delete_file invocation issues one DELETE to the URL of file_id and nothing
\* else, whether it ends with the success or with the error result.
C24_NoRetry ==
    \A c \in Callers :
        /\ \A i, j \in 1..Len(calls[c]) :
               (i < j /\ Failed(c, i)) => calls[c][j] # calls[c][i]
        /\ (IsOp(c, "delete_file") /\ pc[c] # "idle") =>
            /\ Len(calls[c]) = 1
            /\ calls[c][1].verb = "DELETE"
            /\ calls[c][1].url = Url(BaseUrl, <<Files, op[c].file_id.s>>, "")
            /\ pc[c] = "done" => Len(resps[c]) = 1

C24_Witness ==
    \E c \in Callers :
        /\ IsOp(c, "delete_file")
        /\ EndedWith(c, "return")
        /\ helperRaises
        /\ resps[c][1].status = 404
        /\ DOMAIN result[c].value = {"error"}
        /\ VerbsOf(c) = <<"DELETE">>

\* How create_folder ends when the parent folder is not found
ParentNotFound == [kind |-> "raise", value |-> PyNone, exc |-> "ValueError"]

\* The lookup of a create_folder invocation has failed: no reply came, the
\* reply is an error status, or its body is not a listing of entries with ids
LookupFailed(reply) == ~IsSuccess(reply) \/ ~WellFormedListing(reply)

\* The lookup found no folder of that name: a well-formed listing, empty or
\* without files
LookupFoundNothing(reply) ==
    WellFormedListing(reply) /\ DictGet(reply.json, "files", <<>>) = <<>>

\* C25: a create_folder invocation whose parent-name lookup has failed, on the
\* transport or on the shape of the reply, has issued the lookup GET and no
\* POST, and ends exactly as one whose lookup found nothing: with ValueError,
\* the failure of the lookup itself not reaching the caller.
C25_LookupFailureLooksLikeAbsence ==
    \A c \in Callers :
        (/\ IsOp(c, "create_folder")
         /\ calls[c] # <<>>
         /\ calls[c][1].verb = "GET"
         /\ Len(resps[c]) >= 1
         /\ (LookupFailed(resps[c][1]) \/ LookupFoundNothing(resps[c][1]))) =>
            /\ VerbsOf(c) = <<"GET">>
            /\ pc[c] = "done"
            /\ result[c] = ParentNotFound

C25_Witness ==
    \E c \in Callers :
        /\ IsOp(c, "create_folder")
        /\ VerbsOf(c) = <<"GET">>
        /\ Len(resps[c]) = 1
        /\ resps[c][1].status = 0
        /\ result[c] = ParentNotFound

\* The id a content-upload PATCH is addressed to: the last segment of its path
PatchTarget(call) == call.url.path[Len(call.url.path)]

\* C26: with create_file_from_text and upload_a_file invocations interleaved,
\* every content-upload PATCH goes to the id that the reply to the POST of the
\* same invocation supplied, that id is not one another invocation created,
\* and no PATCH goes to an undefined id (the text None in place of the id).
C26_PatchTargetsOwnId ==
    \A c \in Callers : op[c].name \in {"create_file_from_text", "upload_a_file"} =>
        \A i \in CallsWith(c, "PATCH") :
            /\ PatchTarget(calls[c][i]) # NoneChars
            /\ "id" \in DOMAIN resps[c][1].json
            /\ PatchTarget(calls[c][i]) = resps[c][1].json["id"].s
            /\ \A d \in Callers \ {c} : PatchTarget(calls[c][i]) \notin created[d]

\* C27: a create_folder invocation that looks its parent up by name issues
\* one GET, as its first call, for the folders named parent_id; its POST, if
\* any, is its second call, issued once the reply to the GET is in, and the
\* body's parents is the one-element list of the id of the first entry of
\* that reply, never the name the caller supplied.
C27_ParentsIsTheLookedUpId ==
    \A c \in Callers :
        (IsOp(c, "create_folder") /\ calls[c] # <<>> /\ calls[c][1].verb = "GET") =>
            /\ CallsWith(c, "GET") = {1}
            /\ calls[c][1] = FindFolderGet(op[c].parent_id.s)
            /\ CallsWith(c, "POST") \subseteq {2}
            /\ Len(calls[c]) <= 2
            /\ Len(calls[c]) = 2 =>
                /\ IsSuccess(resps[c][1])
                /\ calls[c][2].json["parents"] = <<resps[c][1].json["files"][1]["id"]>>
                /\ \A i \in 1..Len(calls[c][2].json["parents"]) :
                       calls[c][2].json["parents"][i] # op[c].parent_id

C27_Witness ==
    \E c \in Callers :
        /\ IsOp(c, "create_folder")
        /\ VerbsOf(c) = <<"GET", "POST">>
        /\ Len(resps[c][1].json["files"]) = 1
        /\ calls[c][2].json["parents"] = <<resps[c][1].json["files"][1]["id"]>>
        /\ op[c].parent_id = PyStr(Projects)
        /\ EndedWith(c, "return")
        /\ Cardinality(created[c]) = 1

\* C28: create_file_from_text and upload_a_file issue no GET, and their first
\* call is the metadata-create POST, whose body has parents = [parent_id],
\* verbatim, for every non-empty parent_id, ID-shaped or not, and has no
\* parents when parent_id is None (nor when it is the empty string).
C28_ParentIdIsSentVerbatim ==
    \A c \in Callers :
        (op[c].name \in {"create_file_from_text", "upload_a_file"} /\ calls[c] # <<>>) =>
            /\ CallsWith(c, "GET") = {}
            /\ calls[c][1].verb = "POST"
            /\ Truthy(op[c].parent_id) =>
                /\ "parents" \in DOMAIN calls[c][1].json
                /\ calls[c][1].json["parents"] = <<op[c].parent_id>>
            /\ ~Truthy(op[c].parent_id) => "parents" \notin DOMAIN calls[c][1].json

C28_Witness ==
    \E c \in Callers :
        /\ IsOp(c, "upload_a_file")
        /\ op[c].parent_id = PyStr(Projects)
        /\ ~SpecIdPattern(op[c].parent_id.s)
        /\ VerbsOf(c) = <<"POST">>
        /\ calls[c][1].json["parents"] = <<PyStr(Projects)>>
        /\ Len(resps[c]) = 1
        /\ pc[c] = "done"

\* C29: an upload_a_file invocation whose local file cannot be opened or read
\* never issues a PATCH; once its metadata-create call has come back without
\* raising, so that the file is opened, the invocation is over and has ended
\* with the filesystem's own exception, not with a returned value.
C29_FilesystemErrorPropagates ==
    \A c \in Callers :
        (IsOp(c, "upload_a_file") /\ LocalFs[op[c].file_path].err # "") =>
            /\ CallsWith(c, "PATCH") = {}
            /\ (Len(resps[c]) >= 1 /\ ~HelperOutcome(resps[c][1]).raised) =>
                /\ pc[c] = "done"
                /\ result[c] = [kind |-> "raise", value |-> PyNone,
                                exc |-> LocalFs[op[c].file_path].err]

C29_Witness ==
    \E c \in Callers :
        /\ IsOp(c, "upload_a_file")
        /\ op[c].file_path = "/root/secret"
        /\ Len(resps[c]) = 1
        /\ IsSuccess(resps[c][1])
        /\ EndedWith(c, "raise")
        /\ result[c].exc = "PermissionError"
        /\ VerbsOf(c) = <<"POST">>

====
